---- MODULE Spec2Model ----
(***************************************************************************)
(* Model of the `extract` tool: two programs live in the source tree.      *)
(*   - main.rs: the monolithic entry point (index, strict region loop,     *)
(*     name-keyed appending accumulation, one scaffold written to a file). *)
(*   - sequences.rs (+ cli.rs): the Sequences struct (get_reader,          *)
(*     get_regions, extract, write with merge / gap_size).                 *)
(* Text is modelled as sequences of tokens (a reference name, ":", "-",    *)
(* a decimal number) and a sequence body as a sequence of one-symbol       *)
(* strings.  Library calls (noodles Region::from_str, IndexedReader::query,*)
(* Sequence::complement) are modelled at their call sites.                 *)
(***************************************************************************)
EXTENDS Integers, Sequences, FiniteSets, TLC

VARIABLES
    prog,               \* which program runs: "main" (main.rs) or "seq" (sequences.rs)
    merge,              \* main.rs: args.merge_regions; sequences.rs: write's `merge`
    gap_size,           \* sequences.rs: write's `gap_size`
    lines,              \* the regions file, one token sequence per line
    outFile,            \* the destination file: [exists, records]
    out0,               \* the destination file as it was before the run
    pc,                 \* position of the run
    err,                \* the error the run ended with ("none" while it has none)
    i,                  \* lines (main.rs) or regions (sequences.rs) consumed so far
    record,             \* the loop's local `record` after the last iteration
    regions,            \* Sequences.regions
    order,              \* Sequences.order
    data,               \* Sequences.data
    ordered_sequences,  \* main.rs ordered_sequences
    sequences,          \* main.rs sequences
    fastaValid,         \* the collection file scans without a format error
    fai,                \* the companion index file: [exists, entries]
    ipc,                \* position of get_reader in the current run
    index,              \* the in-memory index the reader was built with
    loaded,             \* the current run took the index from the existing file
    runs                \* runs started so far

vars == <<prog, merge, gap_size, lines, outFile, out0, pc, err, i, record,
          regions, order, data, ordered_sequences, sequences,
          fastaValid, fai, ipc, index, loaded, runs>>

pipeVars == <<prog, merge, gap_size, lines, outFile, out0, pc, err, i, record,
              regions, order, data, ordered_sequences, sequences>>

idxVars == <<fastaValid, fai, ipc, index, loaded, runs>>

----------------------------------------------------------------------------
\* Bounds of the model.
MaxLines == 3
MaxGap == 2
MaxRuns == 5

----------------------------------------------------------------------------
\* The collection file: record name -> sequence body.
Fasta ==
    [n \in {"chr1", "chr2", "chr3"} |->
        CASE n = "chr1" -> <<"A", "C", "G", "T", "A", "C", "G", "T">>
          [] n = "chr2" -> <<"G", "a", "N">>
          [] n = "chr3" -> <<"t", "c">>]

\* Decimal text of the coordinates used.
Digits == <<"1", "2", "3", "4", "5", "6", "7", "8">>

IsNum(tok) == \E n \in 1..Len(Digits) : Digits[n] = tok

NumOf(tok) == CHOOSE n \in 1..Len(Digits) : Digits[n] = tok

\* The lines a regions file is drawn from.
LineSet ==
    { <<"chr1", ":", "1", "-", "4">>,
      <<"chr1", ":", "5", "-", "8">>,
      <<"chr1", ":", "1", "-", "5">>,
      <<"-", "chr1", ":", "1", "-", "5">>,
      <<"chr2">>,
      <<"chrX">>,
      <<>>,
      <<"-">> }

RECURSIVE SeqsUpTo(_, _)
SeqsUpTo(S, n) ==
    IF n = 0 THEN {<<>>}
    ELSE LET shorter == SeqsUpTo(S, n - 1)
         IN shorter \cup {Append(s, x) : s \in {t \in shorter : Len(t) = n - 1}, x \in S}

Range(s) == {s[j] : j \in 1..Len(s)}

----------------------------------------------------------------------------
\* region.parse(): empty text is an error; `name` is the whole record
\* (start = end = 0 stands for the unbounded interval); `name:start-end`
\* is a bounded interval.
ParseRegion(toks) ==
    IF toks = <<>> THEN [ok |-> FALSE, region |-> [name |-> "", start |-> 0, end |-> 0]]
    ELSE IF Len(toks) = 1 /\ toks[1] \notin {":", "-"}
    THEN [ok |-> TRUE, region |-> [name |-> toks[1], start |-> 0, end |-> 0]]
    ELSE IF /\ Len(toks) = 5
            /\ toks[2] = ":" /\ toks[4] = "-"
            /\ IsNum(toks[3]) /\ IsNum(toks[5])
            /\ NumOf(toks[3]) <= NumOf(toks[5])
    THEN [ok |-> TRUE,
          region |-> [name |-> toks[1], start |-> NumOf(toks[3]), end |-> NumOf(toks[5])]]
    ELSE [ok |-> FALSE, region |-> [name |-> "", start |-> 0, end |-> 0]]

\* Region's text, which reader.query gives the record as its name.
RegionString(region) ==
    IF region.start = 0 THEN <<region.name>>
    ELSE <<region.name, ":", Digits[region.start], "-", Digits[region.end]>>

\* The names the reader's index holds.
IndexNames == {index[j].name : j \in 1..Len(index)}

\* A query whose NotFound is swallowed: an empty record comes back.
QuerySwallowsNotFound(region) ==
    [ok |-> TRUE,
     name |-> RegionString(region),
     sequence |-> IF region.name \notin IndexNames THEN <<>>
                  ELSE IF region.start = 0 THEN Fasta[region.name]
                  ELSE SubSeq(Fasta[region.name], region.start, region.end)]

\* reader.query(region)?: NotFound for a name the index does not hold, else
\* the record named after the region with the symbols start..end.
Query(region) ==
    IF region.name \notin IndexNames
    THEN [ok |-> FALSE, name |-> <<>>, sequence |-> <<>>]
    ELSE [ok |-> TRUE,
          name |-> RegionString(region),
          sequence |-> IF region.start = 0 THEN Fasta[region.name]
                       ELSE SubSeq(Fasta[region.name], region.start, region.end)]

Reverse(s) == [j \in 1..Len(s) |-> s[Len(s) + 1 - j]]

\* Sequence::complement on one symbol.
Complement(b) ==
    CASE b = "A" -> "T" [] b = "T" -> "A" [] b = "C" -> "G" [] b = "G" -> "C"
      [] b = "a" -> "t" [] b = "t" -> "a" [] b = "c" -> "g" [] b = "g" -> "c"
      [] b = "N" -> "N" [] b = "n" -> "n"

\* A slip of the reverse-complement: the last complemented symbol is lost.
ReverseComplementDropsOne(s) ==
    [j \in 1..(IF Len(s) > 1 THEN Len(s) - 1 ELSE Len(s)) |-> Complement(s[Len(s) + 1 - j])]

\* record.sequence().complement().rev().collect()
ReverseComplement(s) == [j \in 1..Len(s) |-> Complement(s[Len(s) + 1 - j])]

\* The leading '-' of a line: (reverse, rest of the line).
StripReverse(raw) ==
    IF raw # <<>> /\ raw[1] = "-" THEN [reverse |-> TRUE, text |-> Tail(raw)]
    ELSE [reverse |-> FALSE, text |-> raw]

\* Sequences::get_regions: the non-empty lines that parse, each with its flag.
RECURSIVE get_regions(_)
get_regions(ls) ==
    IF ls = <<>> THEN <<>>
    ELSE LET s == StripReverse(ls[1])
             p == ParseRegion(s.text)
         IN IF ls[1] = <<>> \/ ~p.ok THEN get_regions(Tail(ls))
            ELSE <<[region |-> p.region, reversed |-> s.reverse]>> \o get_regions(Tail(ls))

\* The regions file's stem, the default name of the merged contig.
regions_filename == <<"regions">>

\* A key that never strips the coordinates.
MainNameNeverStrips(name, m) == name

\* main.rs: the key of a record; with merge_regions, the text before the
\* first ':'.
MainName(name, m) ==
    IF m /\ \E p \in 1..Len(name) : name[p] = ":"
    THEN SubSeq(name, 1, (CHOOSE p \in 1..Len(name) :
                            /\ name[p] = ":"
                            /\ \A q \in 1..(p - 1) : name[q] # ":") - 1)
    ELSE name

\* A map with `key` bound to `value`, whatever it held.
Insert(map, key, value) ==
    [k \in DOMAIN map \cup {key} |-> IF k = key THEN value ELSE map[k]]

----------------------------------------------------------------------------
\* The extraction pipeline.

NoRecord == [name |-> <<>>, sequence |-> <<>>]

NoFile == [exists |-> FALSE, records |-> <<>>]

OldFile == [exists |-> TRUE, records |-> <<[name |-> <<"old">>, sequence |-> <<"T", "T">>]>>]

\* fasta::index on a well-formed collection file: one entry per record.
FullIndex ==
    <<[name |-> "chr1", length |-> Len(Fasta["chr1"])],
      [name |-> "chr2", length |-> Len(Fasta["chr2"])],
      [name |-> "chr3", length |-> Len(Fasta["chr3"])]>>

\* The index part while the pipeline is explored: the reader was built over
\* the index of a successful scan.
IdxIdle ==
    /\ fastaValid = TRUE
    /\ fai = [exists |-> TRUE, entries |-> FullIndex]
    /\ ipc = "ready"
    /\ index = FullIndex
    /\ loaded = FALSE
    /\ runs = 1

Init ==
    /\ prog \in {"main", "seq"}
    /\ merge \in BOOLEAN
    /\ gap_size \in 0..MaxGap
    \* cli.rs: gap_size requires merge_contigs and defaults to 0; main.rs has no gap.
    /\ (prog = "main" \/ ~merge) => gap_size = 0
    /\ lines \in SeqsUpTo(LineSet, MaxLines)
    /\ outFile \in {NoFile, OldFile}
    /\ out0 = outFile
    /\ pc = IF prog = "main" THEN "loop" ELSE "new"
    /\ err = "none"
    /\ i = 0
    /\ record = NoRecord
    /\ regions = <<>>
    /\ order = <<>>
    /\ data = <<>>
    /\ ordered_sequences = <<>>
    /\ sequences = <<>>
    /\ IdxIdle

\* main.rs, one iteration of the loop over the regions file's lines.
MainLine ==
    /\ prog = "main" /\ pc = "loop" /\ i < Len(lines)
    /\ LET s == StripReverse(lines[i + 1])
           p == ParseRegion(s.text)
           q == Query(p.region)
       IN IF ~p.ok
          THEN /\ pc' = "failed" /\ err' = "ParseError"
               /\ UNCHANGED <<i, record, ordered_sequences, sequences>>
          ELSE IF ~q.ok
          THEN /\ pc' = "failed" /\ err' = "NotFound"
               /\ UNCHANGED <<i, record, ordered_sequences, sequences>>
          ELSE LET sequence == IF s.reverse THEN Reverse(q.sequence) ELSE q.sequence
                   name == MainName(q.name, merge)
                   rec == [name |-> name, sequence |-> sequence]
               IN /\ ordered_sequences' =
                        IF name \in Range(ordered_sequences) THEN ordered_sequences
                        ELSE Append(ordered_sequences, name)
                  /\ sequences' =
                        IF name \in DOMAIN sequences
                        THEN [sequences EXCEPT ![name] =
                                 [name |-> @.name, sequence |-> @.sequence \o sequence]]
                        ELSE Insert(sequences, name, rec)
                  /\ record' = rec
                  /\ i' = i + 1
                  /\ UNCHANGED <<pc, err>>
    /\ UNCHANGED <<prog, merge, gap_size, lines, outFile, out0, regions, order, data>>
    /\ UNCHANGED idxVars

\* The scaffold: the buffers of the keys, in order, one after the other.
RECURSIVE Scaffold(_, _)
Scaffold(keys, map) ==
    IF keys = <<>> THEN <<>>
    ELSE map[keys[1]].sequence \o Scaffold(Tail(keys), map)

\* main.rs, after the loop: build the scaffold and write it to <stem>.fasta.
MainWrite ==
    /\ prog = "main" /\ pc = "loop" /\ i = Len(lines)
    /\ outFile' = [exists |-> TRUE,
                   records |-> <<[name |-> regions_filename,
                                  sequence |-> Scaffold(ordered_sequences, sequences)]>>]
    /\ pc' = "done"
    /\ UNCHANGED <<prog, merge, gap_size, lines, out0, err, i, record,
                   regions, order, data, ordered_sequences, sequences>>
    /\ UNCHANGED idxVars

\* Sequences::new: parse the regions file.
SeqNew ==
    /\ prog = "seq" /\ pc = "new"
    /\ regions' = get_regions(lines)
    /\ pc' = "extract"
    /\ UNCHANGED <<prog, merge, gap_size, lines, outFile, out0, err, i, record,
                   order, data, ordered_sequences, sequences>>
    /\ UNCHANGED idxVars

\* The caller of Sequences: extract follows new.
SeqMayExtract == prog = "seq" /\ pc = "extract"

\* The caller of Sequences: write follows an extract that returned Ok.
SeqMayWrite == prog = "seq" /\ pc = "extract" /\ i = Len(regions)

\* Sequences::extract, one iteration of the loop over self.regions.
SeqExtract ==
    /\ SeqMayExtract /\ i < Len(regions)
    /\ LET r == regions[i + 1]
           q == Query(r.region)
       IN IF ~q.ok
          THEN /\ pc' = "failed" /\ err' = "NotFound"
               /\ UNCHANGED <<i, record, order, data>>
          ELSE LET rec == IF r.reversed
                          THEN [name |-> q.name, sequence |-> ReverseComplement(q.sequence)]
                          ELSE [name |-> q.name, sequence |-> q.sequence]
               IN /\ order' = Append(order, rec.name)
                  /\ data' = Insert(data, rec.name, rec)
                  /\ record' = rec
                  /\ i' = i + 1
                  /\ UNCHANGED <<pc, err>>
    /\ UNCHANGED <<prog, merge, gap_size, lines, outFile, out0, regions,
                   ordered_sequences, sequences>>
    /\ UNCHANGED idxVars

\* "N".repeat(gap_size)
Gap(n) == [j \in 1..n |-> "N"]

\* Sequences::write, merge branch: every entry's sequence, each followed by
\* the gap when there is one, joined.
RECURSIVE MergedSequence(_, _, _)
MergedSequence(keys, map, g) ==
    IF keys = <<>> THEN <<>>
    ELSE map[keys[1]].sequence \o (IF g > 0 THEN Gap(g) ELSE <<>>)
            \o MergedSequence(Tail(keys), map, g)

\* Sequences::write to a file: create it, then write each record of `order`,
\* or the one merged contig.
SeqWrite ==
    /\ SeqMayWrite
    /\ outFile' =
          [exists |-> TRUE,
           records |-> IF ~merge
                       THEN [j \in 1..Len(order) |-> data[order[j]]]
                       ELSE <<[name |-> regions_filename,
                               sequence |-> MergedSequence(order, data, gap_size)]>>]
    /\ pc' = "done"
    /\ UNCHANGED <<prog, merge, gap_size, lines, out0, err, i, record,
                   regions, order, data, ordered_sequences, sequences>>
    /\ UNCHANGED idxVars

Next == MainLine \/ MainWrite \/ SeqNew \/ SeqExtract \/ SeqWrite

Spec == Init /\ [][Next]_vars

----------------------------------------------------------------------------
\* The companion index across runs (Sequences::get_reader; main.rs builds its
\* reader with the same statements).

\* The pipeline part is at rest while the index is explored.
PipeIdle ==
    /\ prog = "seq"
    /\ merge = FALSE
    /\ gap_size = 0
    /\ lines = <<>>
    /\ outFile = NoFile
    /\ out0 = NoFile
    /\ pc = "new"
    /\ err = "none"
    /\ i = 0
    /\ record = NoRecord
    /\ regions = <<>>
    /\ order = <<>>
    /\ data = <<>>
    /\ ordered_sequences = <<>>
    /\ sequences = <<>>

IdxInit ==
    /\ PipeIdle
    /\ fastaValid \in BOOLEAN
    \* No index yet, or the index an earlier successful build left.
    /\ fai \in {[exists |-> FALSE, entries |-> <<>>]}
          \cup (IF fastaValid THEN {[exists |-> TRUE, entries |-> FullIndex]} ELSE {})
    /\ ipc = "idle"
    /\ index = <<>>
    /\ loaded = FALSE
    /\ runs = 0

\* A run of either program starts and reaches the statements that build the
\* reader.
StartRun ==
    /\ ipc \in {"idle", "ready", "failed"}
    /\ runs < MaxRuns
    /\ runs' = runs + 1
    /\ prog' \in {"main", "seq"}
    /\ pc' = IF prog' = "main" THEN "loop" ELSE "new"
    /\ ipc' = "check"
    /\ index' = <<>>
    /\ loaded' = FALSE
    /\ UNCHANGED <<fastaValid, fai>>
    /\ UNCHANGED <<merge, gap_size, lines, outFile, out0, err, i, record,
                   regions, order, data, ordered_sequences, sequences>>

\* get_reader, the .fai file exists: the reader is built from it.
LoadIndex ==
    /\ ipc = "check" /\ fai.exists
    /\ index' = fai.entries
    /\ loaded' = TRUE
    /\ ipc' = "ready"
    /\ UNCHANGED <<fastaValid, fai, runs>>
    /\ UNCHANGED pipeVars

\* get_reader, no .fai file: File::create makes it, empty.
CreateIndexFile ==
    /\ ipc = "check" /\ ~fai.exists
    /\ fai' = [exists |-> TRUE, entries |-> <<>>]
    /\ ipc' = "created"
    /\ UNCHANGED <<fastaValid, index, loaded, runs>>
    /\ UNCHANGED pipeVars

\* fasta::index(fasta_file)?: the scan, which fails on a malformed file.
ScanFasta ==
    /\ ipc = "created"
    /\ IF fastaValid
       THEN /\ index' = FullIndex
            /\ ipc' = "scanned"
       ELSE /\ ipc' = "failed"
            /\ UNCHANGED index
    /\ UNCHANGED <<fastaValid, fai, loaded, runs>>
    /\ UNCHANGED pipeVars

\* writer.write_index(&index)?: the entries go to the file one by one; a
\* write error ends the run with those already written in the file.
WriteIndex ==
    /\ ipc = "scanned"
    /\ \E k \in 0..Len(index) :
          /\ fai' = [exists |-> TRUE, entries |-> SubSeq(index, 1, k)]
          /\ ipc' = IF k = Len(index) THEN "ready" ELSE "failed"
          /\ index' = IF k = Len(index) THEN index ELSE <<>>
    /\ UNCHANGED <<fastaValid, loaded, runs>>
    /\ UNCHANGED pipeVars

IdxNext == StartRun \/ LoadIndex \/ CreateIndexFile \/ ScanFasta \/ WriteIndex

IndexSpec == IdxInit /\ [][IdxNext]_vars

----------------------------------------------------------------------------
\* The reverse-complement as a function of the extracted bytes: every
\* in-bounds (name, start, end), flagged, is extracted by Sequences and the
\* transform is applied once more to what was stored.

InBoundsLines ==
    {<<"-", n>> : n \in DOMAIN Fasta}
        \cup UNION {{<<"-", n, ":", Digits[ab[1]], "-", Digits[ab[2]]>> :
                        ab \in {x \in (1..Len(Fasta[n])) \X (1..Len(Fasta[n])) : x[1] <= x[2]}} :
                     n \in DOMAIN Fasta}

RcInit ==
    /\ prog = "seq"
    /\ merge = FALSE
    /\ gap_size = 0
    /\ lines \in {<<l>> : l \in InBoundsLines}
    /\ outFile = NoFile
    /\ out0 = NoFile
    /\ pc = "new"
    /\ err = "none"
    /\ i = 0
    /\ record = NoRecord
    /\ regions = <<>>
    /\ order = <<>>
    /\ data = <<>>
    /\ ordered_sequences = <<>>
    /\ sequences = <<>>
    /\ IdxIdle

\* The transform of Sequences::extract applied to the stored record again.
ReverseAgain ==
    /\ prog = "seq" /\ pc = "extract" /\ i = Len(regions) /\ i > 0
    /\ record' = [name |-> record.name, sequence |-> ReverseComplement(record.sequence)]
    /\ pc' = "twice"
    /\ UNCHANGED <<prog, merge, gap_size, lines, outFile, out0, err, i,
                   regions, order, data, ordered_sequences, sequences>>
    /\ UNCHANGED idxVars

RcNext == SeqNew \/ SeqExtract \/ ReverseAgain

RevCompSpec == RcInit /\ [][RcNext]_vars

----------------------------------------------------------------------------
\* What the claims speak of.

\* The (region, reversed) of line j of the regions file.
ParsedLine(j) ==
    LET s == StripReverse(lines[j])
    IN [region |-> ParseRegion(s.text).region, reversed |-> s.reverse]

\* The regions processed so far, in input order.
Processed ==
    IF prog = "main" THEN [j \in 1..i |-> ParsedLine(j)] ELSE SubSeq(regions, 1, i)

\* The ordered key list and the key -> buffer map of the running program.
KeyList == IF prog = "main" THEN ordered_sequences ELSE order

KeyMap == IF prog = "main" THEN sequences ELSE data

\* The complement of a symbol: A<->T, C<->G, case-preserving, anything else
\* unchanged.
Pair(b) ==
    CASE b = "A" -> "T" [] b = "T" -> "A" [] b = "C" -> "G" [] b = "G" -> "C"
      [] b = "a" -> "t" [] b = "t" -> "a" [] b = "c" -> "g" [] b = "g" -> "c"
      [] OTHER -> b

\* The extract of a region as the specification defines it.
ExtractOf(r) ==
    LET x == Query(r.region).sequence
    IN IF r.reversed THEN [j \in 1..Len(x) |-> Pair(x[Len(x) + 1 - j])] ELSE x

\* What the running program stores for a region.
StoredOf(r) ==
    LET x == Query(r.region).sequence
    IN IF ~r.reversed THEN x
       ELSE IF prog = "main" THEN Reverse(x) ELSE ReverseComplement(x)

\* The key the running program files a region under.
KeyOf(r) ==
    IF prog = "main" THEN MainName(RegionString(r.region), merge)
    ELSE RegionString(r.region)

\* The sequences joined with g filler symbols between consecutive ones only.
RECURSIVE JoinWithGap(_, _)
JoinWithGap(entries, g) ==
    IF entries = <<>> THEN <<>>
    ELSE IF Len(entries) = 1 THEN entries[1]
    ELSE entries[1] \o [j \in 1..g |-> "N"] \o JoinWithGap(Tail(entries), g)

\* The stored extracts of the first n processed regions filed under key k,
\* one after the other.
RECURSIVE ConcatFor(_, _)
ConcatFor(k, n) ==
    IF n = 0 THEN <<>>
    ELSE ConcatFor(k, n - 1)
            \o (IF KeyOf(Processed[n]) = k THEN StoredOf(Processed[n]) ELSE <<>>)

\* The keys of the first n processed regions, each once, in first-seen order.
RECURSIVE FirstSeen(_)
FirstSeen(n) ==
    IF n = 0 THEN <<>>
    ELSE LET before == FirstSeen(n - 1)
             k == KeyOf(Processed[n])
         IN IF k \in Range(before) THEN before ELSE Append(before, k)

UnknownLine(l) ==
    LET p == ParseRegion(StripReverse(l).text)
    IN l # <<>> /\ p.ok /\ p.region.name \notin IndexNames

ValidLine(l) ==
    LET p == ParseRegion(StripReverse(l).text)
    IN l # <<>> /\ p.ok /\ p.region.name \in IndexNames

HasUnknown == \E j \in 1..Len(lines) : UnknownLine(lines[j])

\* The first unknown-reference line is preceded by valid regions only.
UnknownAfterValid ==
    \E j \in 1..Len(lines) :
        /\ UnknownLine(lines[j])
        /\ \A k \in 1..(j - 1) : ValidLine(lines[k])

\* An unknown reference is still ahead of the loop.
UnknownAhead ==
    IF prog = "main" THEN \E j \in (i + 1)..Len(lines) : UnknownLine(lines[j])
    ELSE pc = "new" \/ \E j \in (i + 1)..Len(regions) :
                          regions[j].region.name \notin IndexNames

----------------------------------------------------------------------------
\* C1: in merge mode the merged contig is the entries' sequences in order
\* with exactly gap_size 'N' between consecutive entries and none before the
\* first or after the last.
C1_FillerOnlyBetween ==
    (prog = "seq" /\ pc = "done" /\ merge) =>
        /\ Len(outFile.records) = 1
        /\ outFile.records[1].sequence =
              JoinWithGap([j \in 1..Len(order) |-> data[order[j]].sequence], gap_size)

\* C2: in non-merge mode the output holds one record per parsed region, in
\* input order, and the j-th record's sequence is the extract of the j-th
\* region.
C2_OneRecordPerRegion ==
    (prog = "seq" /\ pc = "done" /\ ~merge) =>
        /\ Len(outFile.records) = Len(regions)
        /\ \A j \in 1..Len(regions) :
              outFile.records[j].sequence = ExtractOf(regions[j])

\* C3: the sequence stored for a region is the extracted bytes, reversed and
\* complemented when the region's line starts with '-', unchanged otherwise.
C3_StoredIsReverseComplement ==
    i > 0 => record.sequence = ExtractOf(Processed[i])

C5_KeyByMode ==
    i > 0 =>
        record.name = IF merge THEN <<Processed[i].region.name>>
                      ELSE RegionString(Processed[i].region)

\* C5 amended: the key is the bare reference name only in main.rs with
\* merge_regions; Sequences::extract files every region under its
\* region-specific identity whatever the mode, and so does main.rs without
\* merge_regions.  The key is in the ordered list and in the map.
C5_KeyByProgram ==
    i > 0 =>
        /\ record.name = IF prog = "main" /\ merge THEN <<Processed[i].region.name>>
                         ELSE RegionString(Processed[i].region)
        /\ record.name \in Range(KeyList)
        /\ record.name \in DOMAIN KeyMap

\* C5 witness: main.rs with merge_regions has filed a region with coordinates
\* under the bare name.
C5_Witness ==
    /\ prog = "main" /\ merge /\ i > 0
    /\ Processed[i].region.start > 0
    /\ record.name = <<"chr1">>

\* C6: a line that fails to parse is skipped and never aborts the run; the
\* parsed list is the sub-list of the non-empty lines that match the grammar.
C6_LenientParsing ==
    /\ err # "ParseError"
    /\ (prog = "seq" /\ pc # "new") => regions = get_regions(lines)

\* C7: the reverse-complement applied twice to the extracted bytes of an
\* in-bounds (name, start, end) gives the extracted bytes back.
C7_Involution ==
    pc = "twice" => record.sequence = Query(regions[1].region).sequence

\* C7 witness: chr1:1-5 (ACGTA, whose reverse-complement is TACGT) after the
\* second application.
C7_Witness ==
    /\ pc = "twice"
    /\ regions[1].region = [name |-> "chr1", start |-> 1, end |-> 5]
    /\ record.sequence = <<"A", "C", "G", "T", "A">>
    /\ data[order[1]].sequence = <<"T", "A", "C", "G", "T">>

\* C8: after any prefix of the regions list, the buffer under each key is the
\* concatenation, in input order, of the extracts of the processed regions
\* filed under that key.
C8_AppendsUnconditionally ==
    \A k \in DOMAIN KeyMap : KeyMap[k].sequence = ConcatFor(k, i)

\* C9: after any prefix of the regions list, the ordered key list holds each
\* key once, in first-seen order, and its keys are the keys of the map.
C9_DistinctFirstSeenKeys ==
    /\ KeyList = FirstSeen(i)
    /\ Range(KeyList) = DOMAIN KeyMap

\* C10: a run that loads an existing index file loads the complete entry list
\* of a successful scan of the collection file.
C10_LoadedIndexIsComplete ==
    loaded => (fastaValid /\ fai.entries = FullIndex /\ index = FullIndex)

====
